---------------------------- MODULE Spec2Model ----------------------------
(***************************************************************************)
(* Model of src/src/main.mts: the SushiSwap v3 pool tag module.            *)
(*                                                                         *)
(* JavaScript strings are TLA+ strings (TLC evaluates Len, \o, SubSeq on   *)
(* them), arrays are sequences, and an object with optional fields is a    *)
(* record whose optional fields carry a "present" flag.                     *)
(*                                                                         *)
(* The specifications share the definitions of the functions:              *)
(*   SpecTransform  transformPoolsToTags applied to bounded lists of pools *)
(*   Spec           one returnTags invocation against arbitrary responses  *)
(*   SpecUpstream   one returnTags invocation against an upstream that     *)
(*                  holds a finite list of pools and honours the query     *)
(*   FairSpecUpstream  SpecUpstream with the progress the event loop gives *)
(***************************************************************************)
EXTENDS Integers, Sequences, FiniteSets, TLC

VARIABLES
  chainId,        \* returnTags / transformPoolsToTags argument
  apiKey,         \* returnTags argument
  pc,             \* position of the invocation
  url,            \* const url (line 223)
  lastTimestamp,  \* let lastTimestamp (line 219)
  allTags,        \* let allTags (line 220)
  isMore,         \* let isMore (line 221)
  requests,       \* the POST bodies' variables sent so far, in order
  responses,      \* what each fetch of fetchData resolved or rejected with
  console,        \* console.error / console.log lines, in order
  thrown,         \* <<e>> once the invocation has rejected with e, else <<>>
  result,         \* <<tags>> once the invocation has resolved, else <<>>
  upstream,       \* the pools the subgraph holds (SpecUpstream)
  pools,          \* argument of the last transformPoolsToTags call (SpecTransform)
  tags            \* its return value (SpecTransform)

vars == <<chainId, apiKey, pc, url, lastTimestamp, allTags, isMore, requests,
          responses, console, thrown, result, upstream, pools, tags>>

(***************************************************************************)
(* Bounds of the model.                                                    *)
(***************************************************************************)
\* The page-size limit, `first: 1000` of the query and `pools.length === 1000`
\* of the loop, scaled down: a full page is a page of PageSize pools.
PageSize == 2
\* The model stops issuing requests after MaxRequests of them.
MaxRequests == 3
\* Longest list given to transformPoolsToTags in SpecTransform.
MaxPools == 2
\* Most pools the upstream of SpecUpstream holds.
MaxUpstream == 4

(***************************************************************************)
(* Strings.                                                                *)
(***************************************************************************)
CharAt(s, i) == SubSeq(s, i, i)

Chars(s) == {CharAt(s, i) : i \in 1..Len(s)}

\* String.prototype.trim strips white space and line terminators from both
\* ends; the model's texts use these three of them.
WhiteSpace == {" ", "\t", "\n"}

RECURSIVE trimStart(_)
trimStart(s) ==
  IF Len(s) > 0 /\ CharAt(s, 1) \in WhiteSpace
    THEN trimStart(SubSeq(s, 2, Len(s)))
    ELSE s

RECURSIVE trimEnd(_)
trimEnd(s) ==
  IF Len(s) > 0 /\ CharAt(s, Len(s)) \in WhiteSpace
    THEN trimEnd(SubSeq(s, 1, Len(s) - 1))
    ELSE s

trim(s) == trimEnd(trimStart(s))

Digits == <<"0", "1", "2", "3", "4", "5", "6", "7", "8", "9">>

IsDigit(c) == \E d \in 1..10 : Digits[d] = c

DigitValue(c) == (CHOOSE d \in 1..10 : Digits[d] = c) - 1

\* Number.prototype.toString() of an integer below 10^21: its decimal digits.
NumberToString(n) == ToString(n)

\* The longest prefix of s made of decimal digits.
RECURSIVE DigitPrefix(_)
DigitPrefix(s) ==
  IF Len(s) > 0 /\ IsDigit(CharAt(s, 1))
    THEN CharAt(s, 1) \o DigitPrefix(SubSeq(s, 2, Len(s)))
    ELSE ""

RECURSIVE DigitsValue(_)
DigitsValue(s) ==
  IF Len(s) = 0 THEN 0
  ELSE 10 * DigitsValue(SubSeq(s, 1, Len(s) - 1)) + DigitValue(CharAt(s, Len(s)))

\* The value JavaScript calls NaN.
NaN == [nan |-> TRUE]

\* parseInt(s, 10): leading white space skipped, an optional sign, then the
\* longest run of decimal digits; NaN when there is no digit.
parseInt(s) ==
  LET t    == trimStart(s)
      neg  == Len(t) > 0 /\ CharAt(t, 1) = "-"
      sgn  == Len(t) > 0 /\ CharAt(t, 1) \in {"-", "+"}
      body == IF sgn THEN SubSeq(t, 2, Len(t)) ELSE t
      ds   == DigitPrefix(body)
  IN  IF ds = "" THEN NaN
      ELSE IF neg THEN 0 - DigitsValue(ds) ELSE DigitsValue(ds)

\* isNaN(Number(s)) for the string shapes the model's chain ids take: after
\* trimming, the empty string is 0 and an optionally signed decimal literal
\* (digits with at most one ".") is a number; anything else is NaN.
IsDecimalLiteral(t) ==
  LET sgn  == Len(t) > 0 /\ CharAt(t, 1) \in {"-", "+"}
      body == IF sgn THEN SubSeq(t, 2, Len(t)) ELSE t
      dots == {i \in 1..Len(body) : CharAt(body, i) = "."}
  IN  /\ \E i \in 1..Len(body) : IsDigit(CharAt(body, i))
      /\ \A i \in 1..Len(body) : IsDigit(CharAt(body, i)) \/ i \in dots
      /\ Cardinality(dots) <= 1

isNaNNumber(s) ==
  LET t == trim(s) IN ~(t = "" \/ IsDecimalLiteral(t))

\* Array.prototype.join
RECURSIVE join(_, _)
join(seq, sep) ==
  IF Len(seq) = 0 THEN ""
  ELSE IF Len(seq) = 1 THEN seq[1]
  ELSE seq[1] \o sep \o join(Tail(seq), sep)

\* pat occurs in s at position i.
MatchAt(s, i, pat) ==
  i + Len(pat) - 1 <= Len(s) /\ SubSeq(s, i, i + Len(pat) - 1) = pat

\* String.prototype.replace(pattern, replacement) with a string pattern: the
\* first occurrence only.
replace(s, pat, rep) ==
  LET at == {i \in 1..Len(s) : MatchAt(s, i, pat)}
  IN  IF at = {} THEN s
      ELSE LET i == CHOOSE x \in at : \A y \in at : x <= y
           IN  SubSeq(s, 1, i - 1) \o rep \o SubSeq(s, i + Len(pat), Len(s))

\* encodeURIComponent for ASCII: letters, digits and - _ . ! ~ * ' ( ) are
\* kept; of the others the model's keys use "/" and " ".
Unreserved ==
  Chars("abcdefghijklmnopqrstuvwxyzABCDEFGHIJKLMNOPQRSTUVWXYZ0123456789-_.!~*'()")

EncodeChar(c) ==
  IF c \in Unreserved THEN c
  ELSE IF c = "/" THEN "%2F"
  ELSE IF c = " " THEN "%20"
  ELSE "%3F"

RECURSIVE EncodeFrom(_, _)
EncodeFrom(s, i) ==
  IF i > Len(s) THEN ""
  ELSE EncodeChar(CharAt(s, i)) \o EncodeFrom(s, i + 1)

encodeURIComponent(s) == EncodeFrom(s, 1)

(***************************************************************************)
(* The endpoint table and prepareUrl.                                      *)
(***************************************************************************)
SUBGRAPH_URLS ==
  ("42161" :> [decentralized |->
     "https://gateway.thegraph.com/api/[api-key]/subgraphs/id/4vRhyrcGqN63T7FXvL9W5X72iQN8H9fDNfLcUQBG91Wi"]) @@
  ("43114" :> [decentralized |->
     "https://gateway.thegraph.com/api/[api-key]/subgraphs/id/HE31GSTGpXsRnuT4sAJoFayGBZX2xBQqWq4db48YuKmD"]) @@
  ("56" :> [decentralized |->
     "https://gateway.thegraph.com/api/[api-key]/subgraphs/id/GtUp5iLfjfYXtX76wF1yyteSSC5WqnYV8br5ixHZgFmW"]) @@
  ("1" :> [decentralized |->
     "https://gateway.thegraph.com/api/[api-key]/subgraphs/id/7okunX6MGm2pdFK7WJSwm9o82okpBLEzfGrqHDDMWYvq"]) @@
  ("250" :> [decentralized |->
     "https://gateway.thegraph.com/api/[api-key]/subgraphs/id/6z2W9fLTVmhpCecSMTMpRNeSBTRPJLmKsSXrtdkpeJDz"]) @@
  ("100" :> [decentralized |->
     "https://gateway.thegraph.com/api/[api-key]/subgraphs/id/hS35uHcFDVSxJQV1XWht7yMdGTRNVa9poYTpcEZ9uAQ"]) @@
  ("10" :> [decentralized |->
     "https://gateway.thegraph.com/api/[api-key]/subgraphs/id/Hc3vTLxWmtyrn59t2Yv3MiXJVxjfNyZi41iKE3rXXHMf"]) @@
  ("137" :> [decentralized |->
     "https://gateway.thegraph.com/api/[api-key]/subgraphs/id/G1Q6dviDfMm6hVLvCqbfeB19kLmvs7qrnBvXeFndjhaU"])

\* Property names every object inherits from Object.prototype: the lookup
\* SUBGRAPH_URLS[chainId] finds them although the table does not hold them.
ObjectPrototypeKeys ==
  {"constructor", "toString", "valueOf", "hasOwnProperty", "__proto__"}

\* SUBGRAPH_URLS[chainId]: the table's entry, an inherited member (truthy,
\* without a `decentralized` field), or undefined.
LookupUrls(id) ==
  IF id \in DOMAIN SUBGRAPH_URLS
    THEN [defined |-> TRUE, hasDecentralized |-> TRUE,
          decentralized |-> SUBGRAPH_URLS[id].decentralized]
  ELSE IF id \in ObjectPrototypeKeys
    THEN [defined |-> TRUE, hasDecentralized |-> FALSE, decentralized |-> ""]
  ELSE [defined |-> FALSE, hasDecentralized |-> FALSE, decentralized |-> ""]

\* Object.keys of an object whose keys are all integer indices: ascending
\* numeric order.
RECURSIVE SortedKeys(_)
SortedKeys(ks) ==
  IF ks = {} THEN <<>>
  ELSE LET k == CHOOSE x \in ks : \A y \in ks : parseInt(x) <= parseInt(y)
       IN  <<k>> \o SortedKeys(ks \ {k})

ObjectKeys(obj) == SortedKeys(DOMAIN obj)

\* A JavaScript value that was thrown: what isError and `${error}` read of it.
ErrorValue(name, message) ==
  [typeof |-> "object", isNull |-> FALSE, hasMessage |-> TRUE,
   messageType |-> "string", name |-> name, message |-> message]

\* new Error(message)
NewError(message) == ErrorValue("Error", message)

\* Error.prototype.toString, which `${error}` calls.
ErrorToString(e) ==
  IF e.message = "" THEN e.name ELSE e.name \o ": " \o e.message

\* A faulty variant: any object that is not null passes for an Error.
isErrorNoMessageCheck(e) == e.typeof = "object" /\ ~e.isNull

isError(e) ==
  /\ e.typeof = "object"
  /\ ~e.isNull
  /\ e.hasMessage
  /\ e.messageType = "string"

\* What a call gives: a value, or a thrown value.
Returned(v) == [threw |-> FALSE, value |-> <<v>>, error |-> <<>>]

Threw(e) == [threw |-> TRUE, value |-> <<>>, error |-> <<e>>]

\* Line 156: Object.keys(SUBGRAPH_URLS).join(", ")
supportedChainIds == join(ObjectKeys(SUBGRAPH_URLS), ", ")

\* A faulty variant: the table is read without the check of line 155.
prepareUrlNoCheck(id, key) ==
  LET urls == LookupUrls(id)
  IN  IF ~urls.hasDecentralized
        THEN Threw(ErrorValue("TypeError",
               "Cannot read properties of undefined (reading 'replace')"))
        ELSE Returned(replace(urls.decentralized, "[api-key]",
                              encodeURIComponent(key)))

prepareUrl(id, key) ==
  LET urls == LookupUrls(id)
  IN  IF ~urls.defined \/ isNaNNumber(id)
        THEN Threw(NewError(
               "Unsupported or invalid Chain ID provided: " \o id \o
               ". Only the following values are accepted: " \o
               supportedChainIds))
      ELSE IF ~urls.hasDecentralized
        THEN Threw(ErrorValue("TypeError",
               "Cannot read properties of undefined (reading 'replace')"))
      ELSE Returned(replace(urls.decentralized, "[api-key]",
                            encodeURIComponent(key)))

(***************************************************************************)
(* Validation and transformation of pools.                                 *)
(***************************************************************************)
\* /<[^>]*>/.test(text): a "<", then characters other than ">", then a ">".
containsHtmlOrMarkdown(text) ==
  \E i \in 1..Len(text) : \E j \in (i + 1)..Len(text) :
    /\ CharAt(text, i) = "<"
    /\ CharAt(text, j) = ">"
    /\ \A k \in (i + 1)..(j - 1) : CharAt(text, k) # ">"

\* A faulty variant: the text is compared with "" without being trimmed.
isEmptyOrInvalidNoTrim(text) == text = "" \/ containsHtmlOrMarkdown(text)

isEmptyOrInvalid(text) == trim(text) = "" \/ containsHtmlOrMarkdown(text)

\* A faulty variant: the ellipsis is added to maxLength characters.
truncateStringKeepMax(text, maxLength) ==
  IF Len(text) > maxLength
    THEN SubSeq(text, 1, maxLength) \o "..."
    ELSE text

truncateString(text, maxLength) ==
  IF Len(text) > maxLength
    THEN SubSeq(text, 1, maxLength - 3) \o "..."
    ELSE text

maxSymbolsLength == 45

token0Invalid(pool) ==
  isEmptyOrInvalid(pool.token0.name) \/ isEmptyOrInvalid(pool.token0.symbol)

token1Invalid(pool) ==
  isEmptyOrInvalid(pool.token1.name) \/ isEmptyOrInvalid(pool.token1.symbol)

\* The validPools array after the forEach.
validPools(ps) ==
  SelectSeq(ps, LAMBDA pool : ~(token0Invalid(pool) \/ token1Invalid(pool)))

\* The rejectedNames array after the forEach.
RECURSIVE rejectedNames(_)
rejectedNames(ps) ==
  IF Len(ps) = 0 THEN <<>>
  ELSE LET pool == ps[1]
           r0 == IF token0Invalid(pool)
                   THEN <<"Contract: " \o pool.id \o
                          " rejected due to invalid token symbol/name - Token0: "
                          \o pool.token0.name \o ", Symbol: " \o pool.token0.symbol>>
                   ELSE <<>>
           r1 == IF token1Invalid(pool)
                   THEN <<"Contract: " \o pool.id \o
                          " rejected due to invalid token symbol/name - Token1: "
                          \o pool.token1.name \o ", Symbol: " \o pool.token1.symbol>>
                   ELSE <<>>
       IN  r0 \o r1 \o rejectedNames(Tail(ps))

\* The ContractTag the map callback builds of one valid pool.
ContractTag(id, pool) ==
  LET symbolsText == pool.token0.symbol \o "/" \o pool.token1.symbol
      truncatedSymbolsText == truncateString(symbolsText, maxSymbolsLength)
  IN  ("Contract Address" :> "eip155:" \o id \o ":" \o pool.id) @@
      ("Public Name Tag" :> truncatedSymbolsText \o " Pool") @@
      ("Project Name" :> "SushiSwap v3") @@
      ("UI/Website Link" :> "https://www.sushi.com/") @@
      ("Public Note" :>
         "The liquidity pool contract on SushiSwap v3 for the " \o
         pool.token0.name \o " (" \o pool.token0.symbol \o ") / " \o
         pool.token1.name \o " (" \o pool.token1.symbol \o ") pair.")

\* The value transformPoolsToTags returns.
transformPoolsToTags(id, ps) ==
  LET kept == validPools(ps)
  IN  [i \in 1..Len(kept) |-> ContractTag(id, kept[i])]

\* What transformPoolsToTags writes to the console.
transformConsole(ps) ==
  LET rejected == rejectedNames(ps)
  IN  IF Len(rejected) > 0
        THEN <<[level |-> "log",
                text |-> "Rejected token names due to HTML/Markdown content or being empty:",
                args |-> rejected]>>
        ELSE <<>>

(***************************************************************************)
(* Pools.                                                                  *)
(***************************************************************************)
\* interface Pool, interface PoolToken
Pool(id, createdAtTimestamp, name0, symbol0, name1, symbol1) ==
  [id |-> id,
   createdAtTimestamp |-> createdAtTimestamp,
   token0 |-> [id |-> id \o "-t0", name |-> name0, symbol |-> symbol0],
   token1 |-> [id |-> id \o "-t1", name |-> name1, symbol |-> symbol1]]

\* Texts at the edges of the validity rule: empty, white space only, padded,
\* lone or reversed angle brackets, and markup.
EdgeTexts ==
  <<"", " ", "\t\n ", " a ", "<", ">", "><", "<>", "a<b>c", "<a", "< a > b",
    "<<>", "a > b < c">>

\* Symbols of a chosen length, whose characters differ by position.
LongSymbol0(n) == SubSeq("ABCDEFGHIJKLMNOPQRSTUVWXYZABCDEFGHIJKLMNOPQRSTUVWXYZ", 1, n)

LongSymbol1(n) == SubSeq("abcdefghijklmnopqrstuvwxyzabcdefghijklmnopqrstuvwxyz", 1, n)

\* The pools SpecTransform draws from: every combination of a valid and an
\* invalid text in the four fields, each edge text in each field of an
\* otherwise valid pool, and valid pools whose symbol pair is as long as, one
\* longer than and five longer than maxSymbolsLength.
GridPools ==
  {Pool("0xg" \o ToString(a) \o ToString(b) \o ToString(c) \o ToString(d), 5,
        <<"Wrapped Ether", "  ">>[a], <<"WETH", "<b>W</b>">>[b],
        <<"USD Coin", "<script>">>[c], <<"USDC", "">>[d])
     : a \in 1..2, b \in 1..2, c \in 1..2, d \in 1..2}

EdgePools ==
  {Pool("0xe" \o ToString(f) \o "-" \o ToString(t), 5,
        IF f = 1 THEN EdgeTexts[t] ELSE "Wrapped Ether",
        IF f = 2 THEN EdgeTexts[t] ELSE "WETH",
        IF f = 3 THEN EdgeTexts[t] ELSE "USD Coin",
        IF f = 4 THEN EdgeTexts[t] ELSE "USDC")
     : f \in 1..4, t \in 1..Len(EdgeTexts)}

LongPools ==
  {Pool("0xl" \o ToString(m) \o "-" \o ToString(n), 5,
        "Token Zero", LongSymbol0(m), "Token One", LongSymbol1(n))
     : m \in {1, 22, 24}, n \in {1, 22, 23, 25}}

TransformPools == GridPools \cup EdgePools \cup LongPools

\* The pools that surround the pool under study in a list: a valid one, one
\* with markup in a name, and a valid one whose symbol pair is exactly
\* maxSymbolsLength long.
CompanionPools ==
  {Pool("0xc1", 5, "Wrapped Ether", "WETH", "USD Coin", "USDC"),
   Pool("0xc2", 5, "Wrapped Ether", "WETH", "<script>", "USDC"),
   Pool("0xc3", 5, "Token Zero", LongSymbol0(22), "Token One", LongSymbol1(22))}

InsertAt(seq, k, x) == SubSeq(seq, 1, k - 1) \o <<x>> \o SubSeq(seq, k, Len(seq))

\* The lists given to transformPoolsToTags: the empty list, and every pool of
\* TransformPools at every position of every list of fewer than MaxPools
\* companions.
PoolLists ==
  {<<>>} \cup
  UNION {{InsertAt(rest, k, pool) :
            pool \in TransformPools, k \in 1..(Len(rest) + 1)} :
         rest \in UNION {[1..n -> CompanionPools] : n \in 0..(MaxPools - 1)}}

\* The network identifiers returnTags is called with: keys of the table,
\* a number that is no key, texts that are no number, a member every object
\* inherits, the empty string and a padded key.
SupportedInputs == {"1", "137"}

ChainIdInputs == SupportedInputs \cup {"5", "abc", "constructor", "", " 1"}

ApiKeys == {"k/1"}

(***************************************************************************)
(* SpecTransform: transformPoolsToTags as a function of its arguments.     *)
(***************************************************************************)
InitTransform ==
  /\ chainId = "1"
  /\ apiKey = "k/1"
  /\ pc = "idle"
  /\ url = ""
  /\ lastTimestamp = 0
  /\ allTags = <<>>
  /\ isMore = TRUE
  /\ requests = <<>>
  /\ responses = <<>>
  /\ console = <<>>
  /\ thrown = <<>>
  /\ result = <<>>
  /\ upstream = <<>>
  /\ pools = <<>>
  /\ tags = <<>>

\* One call transformPoolsToTags(id, ps).
TransformCall ==
  \E id \in SupportedInputs, ps \in PoolLists :
    /\ pc = "idle"
    /\ chainId' = id
    /\ pools' = ps
    /\ tags' = transformPoolsToTags(id, ps)
    /\ console' = transformConsole(ps)
    /\ pc' = "transformed"
    /\ UNCHANGED <<apiKey, url, lastTimestamp, allTags, isMore, requests,
                   responses, thrown, result, upstream>>

NextTransform == TransformCall

SpecTransform == InitTransform /\ [][NextTransform]_vars

(***************************************************************************)
(* Claims about transformPoolsToTags.                                      *)
(***************************************************************************)
\* The validity rule as the specification words it: non-empty after trimming
\* white space, and no substring that starts with "<" and ends with ">".
TextIsValid(text) ==
  /\ \E i \in 1..Len(text) : CharAt(text, i) \notin {" ", "\t", "\n"}
  /\ ~ \E i \in 1..Len(text) : \E j \in 1..Len(text) :
         i < j /\ CharAt(text, i) = "<" /\ CharAt(text, j) = ">"

PoolIsValid(pool) ==
  /\ TextIsValid(pool.token0.name)
  /\ TextIsValid(pool.token0.symbol)
  /\ TextIsValid(pool.token1.name)
  /\ TextIsValid(pool.token1.symbol)

AcceptedOf(ps) == SelectSeq(ps, PoolIsValid)

\* C3: transformPoolsToTags produces a tag for a pool if and only if all four
\* of token0.name, token0.symbol, token1.name and token1.symbol are non-empty
\* after trimming and hold no substring <...>: the tags are those of the
\* valid pools, one each, in order, and a pool with any one field invalid
\* has none.
C3_TagIffAllFourValid ==
  pc = "transformed" =>
    LET acc == AcceptedOf(pools)
    IN  /\ Len(tags) = Len(acc)
        /\ \A i \in 1..Len(acc) :
             tags[i]["Contract Address"] = "eip155:" \o chainId \o ":" \o acc[i].id

\* A list of two pools of which one is valid and the other has exactly one
\* invalid field (a white-space-only token1.symbol), and one tag came out.
C3_Witness ==
  /\ pc = "transformed"
  /\ Len(pools) = 2
  /\ PoolIsValid(pools[1])
  /\ TextIsValid(pools[2].token0.name)
  /\ TextIsValid(pools[2].token0.symbol)
  /\ TextIsValid(pools[2].token1.name)
  /\ pools[2].token1.symbol = "\t\n "
  /\ Len(tags) = 1

\* The text before " Pool" in a tag's "Public Name Tag".
ShownSymbols(tag) ==
  SubSeq(tag["Public Name Tag"], 1, Len(tag["Public Name Tag"]) - Len(" Pool"))

\* C8: for every accepted pool the symbol pair token0.symbol/token1.symbol in
\* "Public Name Tag" is unchanged when it is at most 45 long, and otherwise
\* is its first 42 characters followed by "...", 45 characters in all.
C8_SymbolPairTruncation ==
  pc = "transformed" =>
    LET acc == AcceptedOf(pools)
    IN  /\ Len(tags) = Len(acc)
        /\ \A i \in 1..Len(acc) :
             LET text  == acc[i].token0.symbol \o "/" \o acc[i].token1.symbol
                 shown == ShownSymbols(tags[i])
             IN  /\ tags[i]["Public Name Tag"] = shown \o " Pool"
                 /\ Len(text) <= 45 => shown = text
                 /\ Len(text) > 45 =>
                      shown = SubSeq(text, 1, 42) \o "..." /\ Len(shown) = 45
                 /\ Len(shown) <= 45

\* A symbol pair of length 50 came out 45 long ending in "...", next to a
\* pair of length exactly 45 that came out unchanged.
C8_Witness ==
  /\ pc = "transformed"
  /\ Len(pools) = 2
  /\ Len(tags) = 2
  /\ Len(pools[1].token0.symbol \o "/" \o pools[1].token1.symbol) = 50
  /\ Len(ShownSymbols(tags[1])) = 45
  /\ SubSeq(ShownSymbols(tags[1]), 43, 45) = "..."
  /\ Len(pools[2].token0.symbol \o "/" \o pools[2].token1.symbol) = 45
  /\ ShownSymbols(tags[2]) = pools[2].token0.symbol \o "/" \o pools[2].token1.symbol

(***************************************************************************)
(* fetchData.                                                              *)
(***************************************************************************)
\* The document and variables of the POST body.
GET_POOLS_QUERY ==
  [first |-> PageSize, orderBy |-> "createdAtTimestamp",
   orderDirection |-> "asc", where |-> "createdAtTimestamp_gt"]

RequestBody(endpoint, cursor) ==
  [url |-> endpoint, query |-> GET_POOLS_QUERY,
   variables |-> [lastTimestamp |-> cursor]]

\* interface GraphQLResponse: `errors` and `data` are optional, and so is
\* `pools` in what an upstream may send as data.
ResponseBody(hasErrors, errors, hasData, hasPools, page) ==
  [errors |-> [present |-> hasErrors, value |-> errors],
   data |-> [present |-> hasData,
             pools |-> [present |-> hasPools, value |-> page]]]

\* What `await fetch(...)` and `await response.json()` give: fetch rejects
\* with a value, or resolves with a response whose body parses or does not.
HttpResponse(ok, status, parses, body) ==
  [kind |-> "http", ok |-> ok, status |-> status, parses |-> parses,
   body |-> body, rejection |-> <<>>]

FetchRejects(e) ==
  [kind |-> "reject", ok |-> FALSE, status |-> 0, parses |-> FALSE,
   body |-> ResponseBody(FALSE, <<>>, FALSE, FALSE, <<>>), rejection |-> <<e>>]

PageResponse(page) ==
  HttpResponse(TRUE, 200, TRUE, ResponseBody(FALSE, <<>>, TRUE, TRUE, page))

\* A faulty variant: the status of the response is not looked at.
fetchDataNoStatusCheck(resp) ==
  IF resp.kind = "reject" THEN Threw(resp.rejection[1])
  ELSE IF ~resp.parses
    THEN Threw(ErrorValue("SyntaxError", "Unexpected token < in JSON at position 0"))
  ELSE IF resp.body.errors.present
    THEN Threw(NewError("GraphQL errors occurred: see logs for details."))
  ELSE IF ~resp.body.data.present \/ ~resp.body.data.pools.present
    THEN Threw(NewError("No pools data found."))
  ELSE Returned(resp.body.data.pools.value)

\* A faulty variant: data.pools is returned when present, and the errors
\* field is looked at only when it is missing.
fetchDataDataFirst(resp) ==
  IF resp.kind = "reject" THEN Threw(resp.rejection[1])
  ELSE IF ~resp.ok THEN Threw(NewError("HTTP error: " \o ToString(resp.status)))
  ELSE IF ~resp.parses
    THEN Threw(ErrorValue("SyntaxError", "Unexpected token < in JSON at position 0"))
  ELSE IF resp.body.data.present /\ resp.body.data.pools.present
    THEN Returned(resp.body.data.pools.value)
  ELSE IF resp.body.errors.present
    THEN Threw(NewError("GraphQL errors occurred: see logs for details."))
  ELSE Threw(NewError("No pools data found."))

\* The rest of fetchData once its fetch has settled with resp: the pools it
\* returns or the value it throws.
fetchData(resp) ==
  IF resp.kind = "reject" THEN Threw(resp.rejection[1])
  ELSE IF ~resp.ok THEN Threw(NewError("HTTP error: " \o ToString(resp.status)))
  ELSE IF ~resp.parses
    THEN Threw(ErrorValue("SyntaxError", "Unexpected token < in JSON at position 0"))
  ELSE IF resp.body.errors.present
    THEN Threw(NewError("GraphQL errors occurred: see logs for details."))
  ELSE IF ~resp.body.data.present \/ ~resp.body.data.pools.present
    THEN Threw(NewError("No pools data found."))
  ELSE Returned(resp.body.data.pools.value)

\* What fetchData writes to the console: one line per GraphQL error.
fetchDataConsole(resp) ==
  IF resp.kind = "http" /\ resp.ok /\ resp.parses /\ resp.body.errors.present
    THEN [i \in 1..Len(resp.body.errors.value) |->
            [level |-> "error",
             text |-> "GraphQL error: " \o resp.body.errors.value[i].message,
             args |-> <<>>]]
    ELSE <<>>

(***************************************************************************)
(* TagService.returnTags.                                                  *)
(***************************************************************************)
\* Lines 219-223: the locals are set and prepareUrl is called, outside the
\* try block: what it throws rejects the invocation as it is.
Start ==
  /\ pc = "start"
  /\ LET r == prepareUrl(chainId, apiKey)
     IN  IF r.threw
           THEN /\ thrown' = r.error
                /\ pc' = "failed"
                /\ url' = url
           ELSE /\ url' = r.value[1]
                /\ pc' = "loop"
                /\ thrown' = thrown
  /\ lastTimestamp' = 0
  /\ allTags' = <<>>
  /\ isMore' = TRUE
  /\ UNCHANGED <<chainId, apiKey, requests, responses, console, result,
                 upstream, pools, tags>>

\* Lines 225-227 and 125-132: the loop is entered and fetchData posts the
\* query with the cursor; the invocation is suspended on the fetch.
IssueRequest ==
  /\ pc = "loop"
  /\ isMore
  /\ requests' = Append(requests, RequestBody(url, lastTimestamp))
  /\ pc' = "await"
  /\ UNCHANGED <<chainId, apiKey, url, lastTimestamp, allTags, isMore,
                 responses, console, thrown, result, upstream, pools, tags>>

\* A faulty variant: the cursor is one less than the last timestamp, so that
\* the next page starts at that timestamp.
nextCursorInclusive(page) ==
  parseInt(NumberToString(page[Len(page)].createdAtTimestamp)) - 1

\* Lines 232-235: the cursor taken from a full page.
nextCursor(page) ==
  parseInt(NumberToString(page[Len(page)].createdAtTimestamp))

\* A faulty variant: a page longer than a full page keeps the loop going.
isMoreAfterAtLeast(page) == Len(page) >= PageSize

\* Line 230
isMoreAfter(page) == Len(page) = PageSize

\* A faulty variant: the tags of a page are put before those of earlier pages.
pushTagsFront(all, new) == new \o all

\* Line 228: allTags.push(...new)
pushTags(all, new) == all \o new

\* Lines 238-244: what the catch block logs of the value caught.
catchConsole(e) ==
  IF isError(e)
    THEN <<[level |-> "error", text |-> "An error occurred: " \o e.message,
            args |-> <<>>]>>
    ELSE <<[level |-> "error", text |-> "An unknown error occurred.",
            args |-> <<>>]>>

\* Lines 238-244: the error the catch block throws.
catchThrows(e) ==
  IF isError(e)
    THEN NewError("Failed fetching data: " \o ErrorToString(e))
    ELSE NewError("An unknown error occurred during fetch operation.")

\* Lines 133-150 and 228-245: the fetch has settled with resp; fetchData
\* finishes, and the loop body either adds the page's tags and sets isMore
\* and the cursor, or catches, logs and throws.
Resume(resp) ==
  /\ pc = "await"
  /\ responses' = Append(responses, resp)
  /\ LET r == fetchData(resp)
     IN  IF ~r.threw
           THEN LET page == r.value[1]
                IN  /\ allTags' = pushTags(allTags, transformPoolsToTags(chainId, page))
                    /\ console' = console \o fetchDataConsole(resp) \o transformConsole(page)
                    /\ isMore' = isMoreAfter(page)
                    /\ lastTimestamp' = IF isMoreAfter(page) THEN nextCursor(page)
                                        ELSE lastTimestamp
                    /\ pc' = "loop"
                    /\ thrown' = thrown
           ELSE LET e == r.error[1]
                IN  /\ console' = console \o fetchDataConsole(resp) \o catchConsole(e)
                    /\ thrown' = <<catchThrows(e)>>
                    /\ pc' = "failed"
                    /\ UNCHANGED <<allTags, isMore, lastTimestamp>>
  /\ UNCHANGED <<chainId, apiKey, url, requests, result, upstream, pools, tags>>

\* Lines 225 and 247: the loop is left and allTags is returned.
Return ==
  /\ pc = "loop"
  /\ ~isMore
  /\ result' = <<allTags>>
  /\ pc' = "returned"
  /\ UNCHANGED <<chainId, apiKey, url, lastTimestamp, allTags, isMore,
                 requests, responses, console, thrown, upstream, pools, tags>>

(***************************************************************************)
(* Spec: one invocation, the fetches settling in any way.                  *)
(***************************************************************************)
\* The pools of the pages: two timestamps apart, two pools sharing one, one
\* pool that validation rejects.
MainPools ==
  {Pool("0xa", 5, "Wrapped Ether", "WETH", "USD Coin", "USDC"),
   Pool("0xb", 12, "Dai Stablecoin", "DAI", "Wrapped Ether", "WETH"),
   Pool("0xc", 12, "<b>Fake</b>", "FAKE", "Wrapped Ether", "WETH"),
   Pool("0xd", 20, "Sushi Token", "SUSHI", "Tether USD", "USDT")}

\* Pages of every length up to one more than a full page.
Pages == UNION {[1..n -> MainPools] : n \in 0..(PageSize + 1)}

SomePage == <<Pool("0xd", 20, "Sushi Token", "SUSHI", "Tether USD", "USDT")>>

GraphQLErrors == <<[message |-> "bad query"], [message |-> "indexing error"]>>

\* Values a fetch may reject with: an Error, and values that are no Error.
Rejections ==
  {ErrorValue("FetchError", "request to gateway failed, reason: ECONNRESET"),
   [typeof |-> "string", isNull |-> FALSE, hasMessage |-> FALSE,
    messageType |-> "undefined", name |-> "", message |-> ""],
   [typeof |-> "object", isNull |-> FALSE, hasMessage |-> TRUE,
    messageType |-> "number", name |-> "", message |-> ""]}

FailureResponses ==
  {FetchRejects(e) : e \in Rejections} \cup
  {HttpResponse(FALSE, 500, TRUE, ResponseBody(FALSE, <<>>, TRUE, TRUE, SomePage)),
   HttpResponse(FALSE, 429, FALSE, ResponseBody(FALSE, <<>>, FALSE, FALSE, <<>>)),
   HttpResponse(TRUE, 200, FALSE, ResponseBody(FALSE, <<>>, FALSE, FALSE, <<>>)),
   HttpResponse(TRUE, 200, TRUE, ResponseBody(TRUE, GraphQLErrors, FALSE, FALSE, <<>>)),
   HttpResponse(TRUE, 200, TRUE, ResponseBody(TRUE, GraphQLErrors, TRUE, TRUE, SomePage)),
   HttpResponse(TRUE, 200, TRUE, ResponseBody(TRUE, <<>>, TRUE, TRUE, SomePage)),
   HttpResponse(TRUE, 200, TRUE, ResponseBody(FALSE, <<>>, FALSE, FALSE, <<>>)),
   HttpResponse(TRUE, 200, TRUE, ResponseBody(FALSE, <<>>, TRUE, FALSE, <<>>))}

Responses == {PageResponse(page) : page \in Pages} \cup FailureResponses

Init ==
  /\ chainId \in ChainIdInputs
  /\ apiKey \in ApiKeys
  /\ pc = "start"
  /\ url = ""
  /\ lastTimestamp = 0
  /\ allTags = <<>>
  /\ isMore = TRUE
  /\ requests = <<>>
  /\ responses = <<>>
  /\ console = <<>>
  /\ thrown = <<>>
  /\ result = <<>>
  /\ upstream = <<>>
  /\ pools = <<>>
  /\ tags = <<>>

SendRequest == Len(requests) < MaxRequests /\ IssueRequest

Respond == \E resp \in Responses : Resume(resp)

Next == Start \/ SendRequest \/ Respond \/ Return

Spec == Init /\ [][Next]_vars

(***************************************************************************)
(* SpecUpstream: one invocation against a subgraph that holds a finite     *)
(* list of pools and answers the query as the query asks.                  *)
(***************************************************************************)
\* The pools with createdAtTimestamp_gt cursor, in the upstream's ascending
\* order.
PoolsAfter(up, cursor) ==
  SelectSeq(up, LAMBDA pool : pool.createdAtTimestamp > cursor)

\* The elements of seq at the indices of idx, in order.
RECURSIVE Pick(_, _)
Pick(seq, idx) ==
  IF idx = {} THEN <<>>
  ELSE LET i == CHOOSE x \in idx : \A y \in idx : x <= y
       IN  <<seq[i]>> \o Pick(seq, idx \ {i})

\* Every answer to GET_POOLS_QUERY of at most `first` pools after the cursor,
\* in ascending order; the first `first` of them is one.
AnswersTo(up, cursor) ==
  LET after == PoolsAfter(up, cursor)
  IN  {Pick(after, idx) :
         idx \in {x \in SUBSET (1..Len(after)) :
                    Cardinality(x) <= GET_POOLS_QUERY.first}}

UpstreamTimestamps == {5, 12, 20}

\* The pool at position i of the upstream: its id is its own; it has one of
\* the timestamps, and token1 is valid or has an empty symbol.
UpstreamPool(i, ts, valid) ==
  Pool("0xu" \o ToString(i), ts, "Wrapped Ether", "WETH", "USD Coin",
       IF valid THEN "USDC" ELSE " ")

\* The lists an upstream may hold: at most MaxUpstream pools in ascending
\* order of timestamp, several pools sharing a timestamp included.
UpstreamLists ==
  UNION {{[i \in 1..n |-> UpstreamPool(i, ts[i], valid[i])] :
            ts \in {t \in [1..n -> UpstreamTimestamps] :
                      \A i \in 1..n : \A j \in 1..n : i < j => t[i] <= t[j]},
            valid \in [1..n -> BOOLEAN]} :
         n \in 0..MaxUpstream}

InitUpstream ==
  /\ chainId \in {"1", "5"}
  /\ apiKey \in ApiKeys
  /\ pc = "start"
  /\ url = ""
  /\ lastTimestamp = 0
  /\ allTags = <<>>
  /\ isMore = TRUE
  /\ requests = <<>>
  /\ responses = <<>>
  /\ console = <<>>
  /\ thrown = <<>>
  /\ result = <<>>
  /\ upstream \in UpstreamLists
  /\ pools = <<>>
  /\ tags = <<>>

\* The upstream answers the request in flight.
RespondUpstream ==
  /\ pc = "await"
  /\ \E page \in AnswersTo(upstream,
                           requests[Len(requests)].variables.lastTimestamp) :
       Resume(PageResponse(page))

NextUpstream == Start \/ IssueRequest \/ RespondUpstream \/ Return

SpecUpstream == InitUpstream /\ [][NextUpstream]_vars

\* The invocation is one async function on the event loop: whenever it can
\* take its next step (the call starts, the fetch settles, the loop goes on)
\* it does.
FairSpecUpstream == SpecUpstream /\ WF_vars(NextUpstream)

(***************************************************************************)
(* Claims about returnTags.  They read the wire (requests, responses), the *)
(* console and the outcome, and restate what a response means without      *)
(* going through fetchData.                                                *)
(***************************************************************************)
StartsWith(s, prefix) ==
  Len(s) >= Len(prefix) /\ SubSeq(s, 1, Len(prefix)) = prefix

EndsWith(s, suffix) ==
  Len(s) >= Len(suffix) /\ SubSeq(s, Len(s) - Len(suffix) + 1, Len(s)) = suffix

\* The items of a ", "-separated list.
RECURSIVE ListItems(_)
ListItems(s) ==
  IF \E i \in 1..Len(s) : MatchAt(s, i, ", ")
    THEN LET i == CHOOSE x \in 1..Len(s) :
                    /\ MatchAt(s, x, ", ")
                    /\ \A y \in 1..(x - 1) : ~MatchAt(s, y, ", ")
         IN  {SubSeq(s, 1, i - 1)} \cup ListItems(SubSeq(s, i + 2, Len(s)))
    ELSE {s}

\* The text of s after the first occurrence of marker ("" if there is none).
TextAfter(s, marker) ==
  LET at == {i \in 1..Len(s) : MatchAt(s, i, marker)}
  IN  IF at = {} THEN ""
      ELSE LET i == CHOOSE x \in at : \A y \in at : x <= y
           IN  SubSeq(s, i + Len(marker), Len(s))

Cursor(i) == requests[i].variables.lastTimestamp

\* A page fetch failed: the fetch itself, a non-success status, a body that
\* is no JSON, an errors field in the payload, or data.pools missing.
FetchFailed(resp) ==
  \/ resp.kind = "reject"
  \/ ~resp.ok
  \/ ~resp.parses
  \/ resp.body.errors.present
  \/ ~resp.body.data.present
  \/ ~resp.body.data.pools.present

AllFetchesSucceeded == \A i \in 1..Len(responses) : ~FetchFailed(responses[i])

PageOf(resp) == resp.body.data.pools.value

LastOf(seq) == seq[Len(seq)]

\* The pools of the pages received in the first n responses, in order.
RECURSIVE ReceivedPools(_)
ReceivedPools(n) ==
  IF n = 0 THEN <<>>
  ELSE ReceivedPools(n - 1) \o
       (IF FetchFailed(responses[n]) THEN <<>> ELSE PageOf(responses[n]))

\* What holds of the cursors whatever ends the loop: the first request has
\* cursor 0 and every later one the timestamp of the last pool of the page
\* before it.
CursorsFollowPages ==
  /\ Len(requests) >= 1 => Cursor(1) = 0
  /\ \A i \in 2..Len(requests) :
       /\ Len(PageOf(responses[i - 1])) >= 1
       /\ Cursor(i) = LastOf(PageOf(responses[i - 1])).createdAtTimestamp

C2_FailedFetchIsFatal ==
  \A i \in 1..Len(responses) :
    FetchFailed(responses[i]) =>
      /\ pc = "failed"
      /\ Len(responses) = i
      /\ Len(requests) = i
      /\ thrown # <<>>
      /\ result = <<>>

\* The third fetch failed after two pages that gave tags: the invocation has
\* failed and returned nothing.
C2_Witness ==
  /\ pc = "failed"
  /\ Len(responses) = 3
  /\ FetchFailed(responses[3])
  /\ Len(allTags) >= 2
  /\ result = <<>>

\* C4: a response with a success status whose body has a non-empty errors
\* array makes the invocation fail with the GraphQL error, with or without
\* data.pools beside it, and its pools give no tag.
C4_ErrorsArrayIsFatal ==
  \A i \in 1..Len(responses) :
    LET resp == responses[i]
    IN  ( /\ resp.kind = "http" /\ resp.ok /\ resp.parses
          /\ resp.body.errors.present
          /\ Len(resp.body.errors.value) > 0 ) =>
          /\ pc = "failed"
          /\ Len(responses) = i
          /\ result = <<>>
          /\ thrown # <<>>
          /\ EndsWith(thrown[1].message,
                      "GraphQL errors occurred: see logs for details.")
          /\ Len(allTags) = Len(AcceptedOf(ReceivedPools(i - 1)))

\* A body with a non-empty errors array and a valid pool in data.pools
\* arrived first: the invocation failed and there is no tag.
C4_Witness ==
  /\ pc = "failed"
  /\ Len(responses) = 1
  /\ responses[1].ok
  /\ Len(responses[1].body.errors.value) > 0
  /\ responses[1].body.data.pools.present
  /\ Len(AcceptedOf(responses[1].body.data.pools.value)) > 0
  /\ allTags = <<>>

\* C5: for a network identifier that is no key of the endpoint table the
\* invocation fails before any request is issued, and the message of the
\* error lists exactly the keys of the table.
C5_UnsupportedNetworkFailsFirst ==
  chainId \notin DOMAIN SUBGRAPH_URLS =>
    /\ pc \in {"start", "failed"}
    /\ requests = <<>>
    /\ responses = <<>>
    /\ pc = "failed" =>
         /\ thrown # <<>>
         /\ StartsWith(thrown[1].message,
                       "Unsupported or invalid Chain ID provided: " \o chainId)
         /\ ListItems(TextAfter(thrown[1].message, "accepted: ")) =
              DOMAIN SUBGRAPH_URLS

\* The invocation for "abc" has failed without a request.
C5_Witness ==
  /\ chainId = "abc"
  /\ pc = "failed"
  /\ requests = <<>>

\* The line the console got last.
LastLogged == LastOf(console).text

\* C6 as stated: every error that ends an invocation has been logged and
\* reaches the caller wrapped with the context of the operation that failed.
C6_EveryErrorLoggedAndWrapped ==
  pc = "failed" =>
    /\ Len(console) > 0
    /\ LastOf(console).level = "error"
    /\ StartsWith(thrown[1].message, "Failed fetching data: ")

\* The message of the error fetchData raises for a response, read off the
\* wire.
CauseText(resp) ==
  IF resp.kind = "reject" THEN ErrorToString(resp.rejection[1])
  ELSE IF ~resp.ok THEN "Error: HTTP error: " \o ToString(resp.status)
  ELSE IF ~resp.parses
    THEN "SyntaxError: Unexpected token < in JSON at position 0"
  ELSE IF resp.body.errors.present
    THEN "Error: GraphQL errors occurred: see logs for details."
  ELSE "Error: No pools data found."

\* The rejection is no Error: a value that is no object, or whose message is
\* no string.
NotAnError(resp) ==
  /\ resp.kind = "reject"
  /\ \/ resp.rejection[1].typeof # "object"
     \/ resp.rejection[1].messageType # "string"

\* C6, amended: an error raised by a page fetch is logged by the catch block
\* with its message and reaches the caller as "Failed fetching data: "
\* followed by the text of the original error, each GraphQL message having
\* been logged before; a thrown value that is no Error is logged and replaced
\* by a generic error that does not carry it; the error of prepareUrl is not
\* logged and reaches the caller as prepareUrl raised it.
C6_FetchErrorsLoggedAndWrapped ==
  pc = "failed" =>
    IF responses = <<>>
      THEN /\ console = <<>>
           /\ StartsWith(thrown[1].message,
                         "Unsupported or invalid Chain ID provided: ")
      ELSE LET resp == LastOf(responses)
           IN  /\ FetchFailed(resp)
               /\ Len(console) > 0
               /\ LastOf(console).level = "error"
               /\ IF NotAnError(resp)
                    THEN /\ LastLogged = "An unknown error occurred."
                         /\ thrown[1].message =
                              "An unknown error occurred during fetch operation."
                    ELSE /\ StartsWith(LastLogged, "An error occurred: ")
                         /\ EndsWith(CauseText(resp),
                                     TextAfter(LastLogged, "An error occurred: "))
                         /\ thrown[1].message =
                              "Failed fetching data: " \o CauseText(resp)
               /\ ( resp.kind = "http" /\ resp.ok /\ resp.parses
                    /\ resp.body.errors.present ) =>
                    \A k \in 1..Len(resp.body.errors.value) :
                      \E l \in 1..Len(console) :
                        console[l].text =
                          "GraphQL error: " \o resp.body.errors.value[k].message

\* A response with status 500 ended the invocation: the caller gets the
\* wrapped HTTP error.
C6_Witness ==
  /\ pc = "failed"
  /\ responses # <<>>
  /\ LastOf(responses).kind = "http"
  /\ LastOf(responses).status = 500
  /\ thrown[1].message = "Failed fetching data: Error: HTTP error: 500"
  /\ LastLogged = "An error occurred: HTTP error: 500"

IsAscending(ps) ==
  \A i \in 1..Len(ps) : \A j \in 1..Len(ps) :
    i < j => ps[i].createdAtTimestamp <= ps[j].createdAtTimestamp

IsStrictlyAscending(ps) ==
  \A i \in 1..Len(ps) : \A j \in 1..Len(ps) :
    i < j => ps[i].createdAtTimestamp < ps[j].createdAtTimestamp

\* No page received holds two pools of the same timestamp.
PagesHaveNoTies ==
  \A i \in 1..Len(responses) :
    ~FetchFailed(responses[i]) => IsStrictlyAscending(PageOf(responses[i]))

\* Every page received is ascending and holds only pools after its cursor.
PagesHonourCursor ==
  \A i \in 1..Len(responses) :
    ~FetchFailed(responses[i]) =>
      /\ IsAscending(PageOf(responses[i]))
      /\ \A k \in 1..Len(PageOf(responses[i])) :
           PageOf(responses[i])[k].createdAtTimestamp > Cursor(i)

\* C7: the tags are those of the accepted pools of the pages, page after page
\* in fetch order and within a page in the order received; what is returned
\* is that list; and it is in ascending timestamp order whenever every page
\* is ascending and holds only pools after its cursor (strictly ascending
\* when no page holds two pools of the same timestamp).
C7_TagsInFetchOrder ==
  LET acc == AcceptedOf(ReceivedPools(Len(responses)))
  IN  /\ Len(allTags) = Len(acc)
      /\ \A i \in 1..Len(acc) :
           allTags[i]["Contract Address"] =
             "eip155:" \o chainId \o ":" \o acc[i].id
      /\ pc = "returned" => result = <<allTags>>
      /\ PagesHonourCursor => IsAscending(acc)
      /\ PagesHonourCursor /\ PagesHaveNoTies => IsStrictlyAscending(acc)

\* A full page and a short page after its cursor gave tags of three pools,
\* returned in the order the pools arrived.
C7_Witness ==
  /\ pc = "returned"
  /\ Len(responses) = 2
  /\ PagesHonourCursor
  /\ Len(result[1]) = 3
  /\ result[1][1]["Contract Address"] = "eip155:137:0xa"
  /\ result[1][2]["Contract Address"] = "eip155:137:0xb"
  /\ result[1][3]["Contract Address"] = "eip155:137:0xd"

(***************************************************************************)
(* Claims about returnTags against the upstream of SpecUpstream.           *)
(***************************************************************************)
Ended == pc \in {"returned", "failed"}

CursorsIncrease ==
  \A i \in 1..Len(requests) : \A j \in 1..Len(requests) :
    i < j => Cursor(i) < Cursor(j)

EndsOnFirstShortPage ==
  \A i \in 1..Len(responses) :
    Len(PageOf(responses[i])) < PageSize =>
      Len(requests) = i /\ pc \in {"loop", "returned"} /\ ~isMore

\* C9: against an upstream that holds finitely many pools and answers every
\* request with at most PageSize pools after the cursor, in ascending order,
\* the invocation eventually returns or fails; the cursor strictly increases
\* from one request to the next, and the loop ends on the first short page.
C9_InvocationEnds ==
  /\ <>Ended
  /\ []CursorsIncrease
  /\ []EndsOnFirstShortPage

\* Two full pages were answered before the page that ended the loop, and the
\* invocation has returned.
C9_Witness ==
  /\ pc = "returned"
  /\ Len(requests) = 3
  /\ Len(PageOf(responses[1])) = PageSize
  /\ Len(PageOf(responses[2])) = PageSize
  /\ Cursor(2) < Cursor(3)

\* Every answer was the first PageSize pools after the cursor.
AnswersAreFirstPages ==
  \A i \in 1..Len(responses) :
    /\ ~FetchFailed(responses[i])
    /\ LET after == SelectSeq(upstream,
                      LAMBDA pool : pool.createdAtTimestamp > Cursor(i))
       IN  PageOf(responses[i]) =
             [k \in 1..(IF Len(after) < PageSize THEN Len(after) ELSE PageSize)
                |-> after[k]]

\* C10: when every answer is the first PageSize pools after the cursor, an
\* invocation that returns yields exactly one tag for each pool of the
\* upstream that passes validation, whatever timestamps the pools have.
C10_EveryValidPoolTaggedOnce ==
  (pc = "returned" /\ AnswersAreFirstPages) =>
    LET valid == AcceptedOf(upstream)
    IN  /\ Len(result[1]) = Len(valid)
        /\ \A k \in 1..Len(valid) :
             Cardinality({i \in 1..Len(result[1]) :
                            result[1][i]["Contract Address"] =
                              "eip155:" \o chainId \o ":" \o valid[k].id}) = 1

=============================================================================
